---- MODULE Spec2Model ----
(***************************************************************************)
(* Model of the User document of src/models/userModel.js: the pre-save     *)
(* hooks (password hashing, passwordChangedAt stamping), the two security  *)
(* token issuers, and the dealership application transitions.              *)
(*                                                                         *)
(* One user record lives in storage (`stored`).  Each request works on its *)
(* own document (`doc[r]`), a copy loaded by a query or built by create.   *)
(* A document tracks the paths modified since it was loaded or saved: an   *)
(* assignment marks a path only when it changes the value, and save()      *)
(* writes the modified paths and nothing else.                             *)
(*                                                                         *)
(* A call is not one step.  It suspends where the code awaits, and the     *)
(* calls of other requests run in between:                                 *)
(*   "query"   awaiting the result of a query                              *)
(*   "random"  awaiting crypto.randomBytes (token issuers)                 *)
(*   "hash"    save() awaiting bcrypt.hash in the first pre-save hook      *)
(*   "write"   save() awaiting the store, which accepts or rejects          *)
(***************************************************************************)
EXTENDS Integers, FiniteSets, Sequences, TLC

\* ------------------------------------------------------------ bounds
NumRequests == 2   \* concurrent requests, each with its own document
MaxTokens == 3     \* crypto.randomBytes draws over a run
MaxTicks == 1      \* clock advances over a run
TickMs == 500      \* milliseconds per clock advance
StartMs == 4000    \* Date.now() at the start of a run
MaxCalls == 3      \* calls started over a run
MaxTokenCalls == 4 \* calls started over a run of the token issuers alone

\* ------------------------------------------------------------ constants
SkewMs == 1000          \* Date.now() - 1000
MsPerSecond == 1000     \* getTime() / 1000
TokenWindowMin == 10    \* createTimeStampInEpoch({ min: 10 })

APPROVED == "APPROVED"
PENDING == "PENDING"
REJECTED == "REJECTED"
NONE == "NONE"          \* dealershipApplicationStatus undefined
NULL == "NULL"          \* dealershipApplicationStatus null
USER == "USER"

\* The schema's enum of dealershipApplicationStatus.
StatusEnum == {APPROVED, PENDING, REJECTED}

\* Values a caller can pass as the `status` argument, which the method
\* does not look at: the enum's, a string outside it, undefined (which
\* unsets the path) and null.
Decisions == StatusEnum \cup {"OTHER", NONE, NULL}

Requests == 1..NumRequests
Passwords == {"Abcdef1!", "Qwerty2@"}

Absent == << >>         \* an undefined path

\* ------------------------------------------------------------ conversions
\* bcrypt.hash(value, 13): one-way; the model keeps the plaintext and the
\* number of times the hash was applied (0 = plaintext).
Plain(p) == <<p, 0>>

BcryptHash(pw) == <<pw[1], pw[2] + 1>>

\* bcrypt.compare(plain, hashed)
comparePassword(plainPassword, hashedPassword) ==
    hashedPassword = BcryptHash(Plain(plainPassword))

\* crypto.createHash("sha256").update(token).digest("hex")
Sha256(token) == <<"sha256", token>>

\* Casting to the schema type of the path: passwordResetTokenExpires is a
\* String, userConfirmationTokenExpires and passwordChangedAt are Dates.
CastString(ms) == <<"String", ms>>
CastDate(ms) == <<"Date", ms>>

\* Date#getTime(), Number(string)
EpochOf(v) == v[2]

\* ------------------------------------------------------------ state
VARIABLES stored, created, doc, loaded, modified, pc, op, now, ticks,
          nextToken, calls, issued, lastPlain, stamps, everApproved, last

vars == <<stored, created, doc, loaded, modified, pc, op, now, ticks,
          nextToken, calls, issued, lastPlain, stamps, everApproved, last>>

Paths == {"password", "passwordConfirm", "role", "dealershipApplicationStatus",
          "passwordChangedAt", "passwordResetToken", "passwordResetTokenExpires",
          "userConfirmationToken", "userConfirmationTokenExpires"}

\* The paths declared select: false, left out of a query's result unless
\* the query asks for them.
Unselected == {"password", "passwordChangedAt", "passwordResetToken",
               "passwordResetTokenExpires", "userConfirmationToken",
               "userConfirmationTokenExpires"}

\* A document none of whose paths is set.
BlankDoc ==
    [password |-> Absent, passwordConfirm |-> Absent, role |-> USER,
     dealershipApplicationStatus |-> NONE, passwordChangedAt |-> Absent,
     passwordResetToken |-> Absent, passwordResetTokenExpires |-> Absent,
     userConfirmationToken |-> Absent, userConfirmationTokenExpires |-> Absent]

\* A call under way: the method and its argument.
Op(name, arg) == [name |-> name, arg |-> arg]

NoOp == Op("none", NONE)

\* The most recent call that ended: its request, its argument and how it
\* ended.
Call(name, r, arg, outcome) == [op |-> name, r |-> r, arg |-> arg, outcome |-> outcome]

NoCall == Call("none", 0, NONE, "none")

Init ==
    /\ stored = BlankDoc
    /\ created = FALSE
    /\ doc = [r \in Requests |-> BlankDoc]
    /\ loaded = [r \in Requests |-> FALSE]
    /\ modified = [r \in Requests |-> {}]
    /\ pc = [r \in Requests |-> "idle"]
    /\ op = [r \in Requests |-> NoOp]
    /\ now = StartMs
    /\ ticks = 0
    /\ nextToken = 1
    /\ calls = 0
    /\ issued = {}
    /\ lastPlain = ""
    /\ stamps = {}
    /\ everApproved = FALSE
    /\ last = NoCall

\* ------------------------------------------------------------ documents
\* A document and the paths modified since it was loaded or last saved.
Saving(d, m) == [d |-> d, modified |-> m]

\* Assignment to a path of a document: the path is marked modified when
\* the value changes; a path already marked stays marked.
Set(s, path, val) ==
    Saving([s.d EXCEPT ![path] = val],
           IF path \in s.modified \/ val # s.d[path]
           THEN s.modified \cup {path}
           ELSE s.modified)

\* Schema validation, run by save() unless validateBeforeSave is false:
\* password and passwordConfirm are required, passwordConfirm must equal
\* password, and a modified dealershipApplicationStatus string must be in
\* the enum.
Validates(s) ==
    /\ s.d.password # Absent
    /\ s.d.passwordConfirm # Absent
    /\ s.d.passwordConfirm = s.d.password
    /\ "dealershipApplicationStatus" \in s.modified
          => s.d.dealershipApplicationStatus \in StatusEnum \cup {NONE, NULL}

\* pre("save") #1: hash a modified password and drop passwordConfirm.
preSaveHashPassword(s) ==
    IF "password" \in s.modified
    THEN Set(Set(s, "password", BcryptHash(s.d.password)), "passwordConfirm", Absent)
    ELSE s

\* Mutant: the stamp is Date.now(), without the skew.
preSaveChangedAt_NoSkew(s, isNew, t) ==
    IF ~isNew /\ "password" \in s.modified
    THEN Set(s, "passwordChangedAt", CastDate(t))
    ELSE s

\* pre("save") #2: stamp passwordChangedAt when an existing document's
\* password was modified.
preSaveChangedAt(s, isNew, t) ==
    IF ~isNew /\ "password" \in s.modified
    THEN Set(s, "passwordChangedAt", CastDate(t - SkewMs))
    ELSE s

\* The two hooks in the order they are registered.
preSave(s, isNew, t) == preSaveChangedAt(preSaveHashPassword(s), isNew, t)

\* The write save() issues: the modified paths of the document replace the
\* stored ones, every other stored path is left as it is.
Persist(st, s) ==
    [p \in Paths |-> IF p \in s.modified THEN s.d[p] ELSE st[p]]

\* What a query returns: every path when the query selects them all, else
\* the stored document without its select: false paths.
Project(st, full) ==
    [p \in Paths |-> IF full \/ p \notin Unselected THEN st[p] ELSE BlankDoc[p]]

\* ------------------------------------------------------------ save()
\* The document of request r, as being saved.
Mine(r) == Saving(doc[r], modified[r])

\* save() is called on the document s of request r for the call o.  With
\* a modified password the first hook awaits bcrypt.hash; otherwise both
\* hooks run through and the write is issued.
BeginSave(r, s, o) ==
    /\ op' = [op EXCEPT ![r] = o]
    /\ IF "password" \in s.modified
       THEN /\ doc' = [doc EXCEPT ![r] = s.d]
            /\ modified' = [modified EXCEPT ![r] = s.modified]
            /\ pc' = [pc EXCEPT ![r] = "hash"]
       ELSE LET h == preSave(s, o.name = "create", now)
            IN /\ doc' = [doc EXCEPT ![r] = h.d]
               /\ modified' = [modified EXCEPT ![r] = h.modified]
               /\ pc' = [pc EXCEPT ![r] = "write"]

\* bcrypt.hash resolves: the first hook assigns the hash and unsets
\* passwordConfirm, the second stamps passwordChangedAt from the clock,
\* and the write is issued.
HashDone(r) ==
    /\ pc[r] = "hash"
    /\ LET isNew == op[r].name = "create"
           h == preSave(Mine(r), isNew, now)
       IN /\ doc' = [doc EXCEPT ![r] = h.d]
          /\ modified' = [modified EXCEPT ![r] = h.modified]
          /\ stamps' = IF isNew THEN stamps ELSE stamps \cup {now}
    /\ pc' = [pc EXCEPT ![r] = "write"]
    /\ UNCHANGED <<stored, created, loaded, op, now, ticks, nextToken, calls, issued,
                   lastPlain, everApproved, last>>

\* The store accepts the write.  A new document is inserted, unless a user
\* with its email is stored already (the unique index rejects it and
\* create returns no document); an existing one has its modified paths
\* written.
Land(r) ==
    /\ pc[r] = "write"
    /\ pc' = [pc EXCEPT ![r] = "idle"]
    /\ op' = [op EXCEPT ![r] = NoOp]
    /\ modified' = [modified EXCEPT ![r] = {}]
    /\ IF op[r].name = "create" /\ created
       THEN /\ doc' = [doc EXCEPT ![r] = BlankDoc]
            /\ last' = Call("create", r, NONE, "DuplicateKey")
            /\ UNCHANGED <<stored, created, loaded, lastPlain, everApproved>>
       ELSE /\ stored' = Persist(stored, Mine(r))
            /\ created' = TRUE
            /\ loaded' = [loaded EXCEPT ![r] = TRUE]
            /\ lastPlain' = IF "password" \in modified[r]
                            THEN doc[r].password[1]
                            ELSE lastPlain
            /\ everApproved' = (everApproved
                                  \/ stored'.dealershipApplicationStatus = APPROVED)
            /\ last' = Call(op[r].name, r, op[r].arg, "ok")
            /\ UNCHANGED doc
    /\ UNCHANGED <<now, ticks, nextToken, calls, issued, stamps>>

\* The store rejects the write: save() rejects, the document keeps what
\* was assigned and its modified paths; create returns no document.
Reject(r) ==
    /\ pc[r] = "write"
    /\ pc' = [pc EXCEPT ![r] = "idle"]
    /\ op' = [op EXCEPT ![r] = NoOp]
    /\ last' = Call(op[r].name, r, op[r].arg, "SaveError")
    /\ IF op[r].name = "create"
       THEN /\ doc' = [doc EXCEPT ![r] = BlankDoc]
            /\ modified' = [modified EXCEPT ![r] = {}]
       ELSE UNCHANGED <<doc, modified>>
    /\ UNCHANGED <<stored, created, loaded, now, ticks, nextToken, calls, issued,
                   lastPlain, stamps, everApproved>>

\* ------------------------------------------------------------ operations
\* User.create({password, passwordConfirm}): a new document, all its paths
\* to be written, is validated and saved; the request has it once it is
\* inserted.
create(r, pw, confirm) ==
    /\ pc[r] = "idle"
    /\ calls' = calls + 1
    /\ LET s == Saving([BlankDoc EXCEPT !.password = Plain(pw),
                                        !.passwordConfirm = Plain(confirm)], Paths)
       IN IF Validates(s)
          THEN /\ BeginSave(r, s, Op("create", NONE))
               /\ loaded' = [loaded EXCEPT ![r] = FALSE]
               /\ UNCHANGED last
          ELSE /\ last' = Call("create", r, NONE, "ValidationError")
               /\ UNCHANGED <<doc, modified, pc, op, loaded>>
    /\ UNCHANGED <<stored, created, now, ticks, nextToken, issued, lastPlain,
                   stamps, everApproved>>

\* A request queries the stored user, with the default projection or with
\* every path selected, and awaits the result.
Load(r, full) ==
    /\ pc[r] = "idle"
    /\ created
    /\ pc' = [pc EXCEPT ![r] = "query"]
    /\ op' = [op EXCEPT ![r] = Op("load", IF full THEN "full" ELSE "default")]
    /\ UNCHANGED <<stored, created, doc, loaded, modified, now, ticks, nextToken, calls,
                   issued, lastPlain, stamps, everApproved, last>>

\* The query's result arrives: the request has its own copy of the stored
\* user as the store holds it now.
Found(r) ==
    /\ pc[r] = "query"
    /\ doc' = [doc EXCEPT ![r] = Project(stored, op[r].arg = "full")]
    /\ modified' = [modified EXCEPT ![r] = {}]
    /\ loaded' = [loaded EXCEPT ![r] = TRUE]
    /\ pc' = [pc EXCEPT ![r] = "idle"]
    /\ op' = [op EXCEPT ![r] = NoOp]
    /\ UNCHANGED <<stored, created, now, ticks, nextToken, calls, issued, lastPlain,
                   stamps, everApproved, last>>

\* changePassword: the caller assigns password and passwordConfirm on its
\* document and saves it with validation; a failed validation leaves the
\* assignments on the document.
changePassword(r, pw, confirm) ==
    /\ pc[r] = "idle"
    /\ loaded[r]
    /\ calls' = calls + 1
    /\ LET s == Set(Set(Mine(r), "password", Plain(pw)), "passwordConfirm", Plain(confirm))
       IN IF Validates(s)
          THEN /\ BeginSave(r, s, Op("changePassword", NONE))
               /\ UNCHANGED last
          ELSE /\ doc' = [doc EXCEPT ![r] = s.d]
               /\ modified' = [modified EXCEPT ![r] = s.modified]
               /\ last' = Call("changePassword", r, NONE, "ValidationError")
               /\ UNCHANGED <<pc, op>>
    /\ UNCHANGED <<stored, created, loaded, now, ticks, nextToken, issued, lastPlain,
                   stamps, everApproved>>

\* createTimeStampInEpoch({ min }): the epoch time `min` minutes from now.
createTimeStampInEpoch(min, t) == t + min * 60 * 1000

\* A raw token a call drew, what it was issued for, when, and the expiry
\* the call computed for it.
Issue(raw, purpose, at, expires) ==
    [raw |-> raw, purpose |-> purpose, at |-> at, expires |-> expires]

\* A token issuer is called and awaits crypto.randomBytes.
AwaitRandomBytes(r, name) ==
    /\ pc[r] = "idle"
    /\ loaded[r]
    /\ nextToken + Cardinality({q \in Requests : pc[q] = "random"}) <= MaxTokens
    /\ calls' = calls + 1
    /\ pc' = [pc EXCEPT ![r] = "random"]
    /\ op' = [op EXCEPT ![r] = Op(name, NONE)]
    /\ UNCHANGED <<stored, created, doc, loaded, modified, now, ticks, nextToken, issued,
                   lastPlain, stamps, everApproved, last>>

\* generateAndSavePasswordResetToken: await the random bytes; then assign
\* the token's hash and the expiry and call save().
generateAndSavePasswordResetToken(r) ==
    \/ AwaitRandomBytes(r, "issueReset")
    \/ /\ pc[r] = "random"
       /\ op[r].name = "issueReset"
       /\ LET token == nextToken
              s == Set(Set(Mine(r), "passwordResetToken", Sha256(token)),
                       "passwordResetTokenExpires",
                       CastString(createTimeStampInEpoch(TokenWindowMin, now)))
          IN /\ BeginSave(r, s, op[r])
             /\ issued' = issued \cup {Issue(token, "reset", now,
                                              EpochOf(s.d.passwordResetTokenExpires))}
       /\ nextToken' = nextToken + 1
       /\ UNCHANGED <<stored, created, loaded, now, ticks, calls, lastPlain, stamps,
                      everApproved, last>>

\* generateAndSaveUserConfirmationToken: the same on the confirmation
\* token's paths.
generateAndSaveUserConfirmationToken(r) ==
    \/ AwaitRandomBytes(r, "issueConfirmation")
    \/ /\ pc[r] = "random"
       /\ op[r].name = "issueConfirmation"
       /\ LET token == nextToken
              s == Set(Set(Mine(r), "userConfirmationToken", Sha256(token)),
                       "userConfirmationTokenExpires",
                       CastDate(createTimeStampInEpoch(TokenWindowMin, now)))
          IN /\ BeginSave(r, s, op[r])
             /\ issued' = issued \cup {Issue(token, "confirmation", now,
                                              EpochOf(s.d.userConfirmationTokenExpires))}
       /\ nextToken' = nextToken + 1
       /\ UNCHANGED <<stored, created, loaded, now, ticks, calls, lastPlain, stamps,
                      everApproved, last>>

\* The user submits a dealership application: NONE -> PENDING.
submitApplication(r) ==
    /\ pc[r] = "idle"
    /\ loaded[r]
    /\ doc[r].dealershipApplicationStatus = NONE
    /\ calls' = calls + 1
    /\ BeginSave(r, Set(Mine(r), "dealershipApplicationStatus", PENDING),
                 Op("submitApplication", NONE))
    /\ UNCHANGED <<stored, created, loaded, now, ticks, nextToken, issued, lastPlain,
                   stamps, everApproved, last>>

\* Mutant: the guard on an approved application is missing.
dealershipApplicationResponse_NoGuard(r, status) ==
    /\ pc[r] = "idle"
    /\ loaded[r]
    /\ calls' = calls + 1
    /\ BeginSave(r, Set(Mine(r), "dealershipApplicationStatus", status),
                 Op("respond", status))
    /\ UNCHANGED <<stored, created, loaded, now, ticks, nextToken, issued, lastPlain,
                   stamps, everApproved, last>>

dealershipApplicationResponse(r, status) ==
    /\ pc[r] = "idle"
    /\ loaded[r]
    /\ calls' = calls + 1
    /\ IF doc[r].dealershipApplicationStatus = APPROVED
       THEN /\ last' = Call("respond", r, status, "403")
            /\ UNCHANGED <<doc, modified, pc, op>>
       ELSE /\ BeginSave(r, Set(Mine(r), "dealershipApplicationStatus", status),
                         Op("respond", status))
            /\ UNCHANGED last
    /\ UNCHANGED <<stored, created, loaded, now, ticks, nextToken, issued, lastPlain,
                   stamps, everApproved>>

\* Mutant: the guard rejects only a missing status.
revokeDealershipApplication_WeakGuard(r) ==
    /\ pc[r] = "idle"
    /\ loaded[r]
    /\ calls' = calls + 1
    /\ IF doc[r].dealershipApplicationStatus = NONE
       THEN /\ last' = Call("revoke", r, NONE, "403")
            /\ UNCHANGED <<doc, modified, pc, op>>
       ELSE /\ BeginSave(r, Set(Mine(r), "dealershipApplicationStatus", REJECTED),
                         Op("revoke", NONE))
            /\ UNCHANGED last
    /\ UNCHANGED <<stored, created, loaded, now, ticks, nextToken, issued, lastPlain,
                   stamps, everApproved>>

revokeDealershipApplication(r) ==
    /\ pc[r] = "idle"
    /\ loaded[r]
    /\ calls' = calls + 1
    /\ IF doc[r].dealershipApplicationStatus # APPROVED
       THEN /\ last' = Call("revoke", r, NONE, "403")
            /\ UNCHANGED <<doc, modified, pc, op>>
       ELSE /\ BeginSave(r, Set(Mine(r), "dealershipApplicationStatus", REJECTED),
                         Op("revoke", NONE))
            /\ UNCHANGED last
    /\ UNCHANGED <<stored, created, loaded, now, ticks, nextToken, issued, lastPlain,
                   stamps, everApproved>>

\* Mutant: the division is an integer division.
passwordChangedAfterJwt_Truncating(d, jwtIsa) ==
    IF d.passwordChangedAt # Absent
    THEN EpochOf(d.passwordChangedAt) \div MsPerSecond > jwtIsa
    ELSE FALSE

\* passwordChangedAfterJwt(jwtIsa): passwordChangedAt.getTime() / 1000 > jwtIsa.
\* The quotient is a real number; for an integer jwtIsa it exceeds jwtIsa
\* iff its whole part does, or its whole part equals jwtIsa and a
\* remainder is left.
passwordChangedAfterJwt(d, jwtIsa) ==
    IF d.passwordChangedAt # Absent
    THEN LET ms == EpochOf(d.passwordChangedAt)
         IN \/ ms \div MsPerSecond > jwtIsa
            \/ ms \div MsPerSecond = jwtIsa /\ ms % MsPerSecond > 0
    ELSE FALSE

\* Token check of the issuer's contract: the hash of the raw token equals
\* the stored hash and the stored expiry has not passed.
verify(rawToken, hashedToken, expiresAt, t) ==
    /\ hashedToken # Absent
    /\ expiresAt # Absent
    /\ Sha256(rawToken) = hashedToken
    /\ ~(t > EpochOf(expiresAt))

\* The clock advances.
Tick ==
    /\ ticks < MaxTicks
    /\ now' = now + TickMs
    /\ ticks' = ticks + 1
    /\ UNCHANGED <<stored, created, doc, loaded, modified, pc, op, nextToken, calls,
                   issued, lastPlain, stamps, everApproved, last>>

\* A request starts a call only while the run's budget of n calls lasts.
Within(r, n) == pc[r] = "idle" => calls < n

Next ==
    \/ \E r \in Requests, pw \in Passwords, confirm \in Passwords :
         Within(r, MaxCalls) /\ create(r, pw, confirm)
    \/ \E r \in Requests, pw \in Passwords, confirm \in Passwords :
         Within(r, MaxCalls) /\ changePassword(r, pw, confirm)
    \/ \E r \in Requests : Within(r, MaxCalls) /\ generateAndSavePasswordResetToken(r)
    \/ \E r \in Requests : Within(r, MaxCalls) /\ generateAndSaveUserConfirmationToken(r)
    \/ \E r \in Requests : Within(r, MaxCalls) /\ submitApplication(r)
    \/ \E r \in Requests, status \in Decisions :
         Within(r, MaxCalls) /\ dealershipApplicationResponse(r, status)
    \/ \E r \in Requests : Within(r, MaxCalls) /\ revokeDealershipApplication(r)
    \/ \E r \in Requests, full \in BOOLEAN : Load(r, full)
    \/ \E r \in Requests : Found(r)
    \/ \E r \in Requests : HashDone(r)
    \/ \E r \in Requests : Land(r)
    \/ \E r \in Requests : Reject(r)
    \/ Tick

Spec == Init /\ [][Next]_vars

\* The token issuers alone, under a budget of their own: create, the
\* queries, the two issuers and the steps of the calls under way.
NextTokens ==
    \/ \E r \in Requests, pw \in Passwords, confirm \in Passwords :
         Within(r, MaxTokenCalls) /\ create(r, pw, confirm)
    \/ \E r \in Requests : Within(r, MaxTokenCalls) /\ generateAndSavePasswordResetToken(r)
    \/ \E r \in Requests : Within(r, MaxTokenCalls) /\ generateAndSaveUserConfirmationToken(r)
    \/ \E r \in Requests, full \in BOOLEAN : Load(r, full)
    \/ \E r \in Requests : Found(r)
    \/ \E r \in Requests : HashDone(r)
    \/ \E r \in Requests : Land(r)
    \/ \E r \in Requests : Reject(r)
    \/ Tick

SpecTokens == Init /\ [][NextTokens]_vars

\* ============================================================ claims
Status(d) == d.dealershipApplicationStatus

\* The stored record and the documents of the requests.
Documents == {stored} \cup {doc[r] : r \in Requests}

\* The issues of one purpose.
IssuedFor(purpose) == {i \in issued : i.purpose = purpose}

\* The JWT issue times (seconds) around an instant (milliseconds).
JwtIatsAround(ms) == ((ms \div MsPerSecond) - 2)..((ms \div MsPerSecond) + 2)

\* Instants at which a token issued at `at` is checked: around its expiry.
CheckTimes(at) ==
    LET e == createTimeStampInEpoch(TokenWindowMin, at)
    IN {at, e - 1, e, e + 1, e + TickMs}

Credentials(d) ==
    <<d.password, d.passwordChangedAt, d.role, d.dealershipApplicationStatus>>

ResetPair(d) == <<d.passwordResetToken, d.passwordResetTokenExpires>>

ConfirmationPair(d) == <<d.userConfirmationToken, d.userConfirmationTokenExpires>>

\* The save() of request r's call `name` ends in this step, accepted or
\* rejected by the store.
Completes(r, name) == op[r].name = name /\ pc[r] = "write" /\ pc'[r] = "idle"

\* C1: dealershipApplicationResponse called on a document whose status is
\* APPROVED fails with the 403 error for every argument, starts no write
\* and leaves the document and the stored record as they are.
C1_ApprovedRejectsResponse ==
    [][\A r \in Requests, status \in Decisions :
         (dealershipApplicationResponse(r, status) /\ Status(doc[r]) = APPROVED)
            => /\ last' = Call("respond", r, status, "403")
               /\ pc'[r] = "idle"
               /\ doc' = doc
               /\ modified' = modified
               /\ stored' = stored]_vars

C1_Witness ==
    /\ last.op = "respond"
    /\ last.outcome = "403"
    /\ last.arg = REJECTED
    /\ Status(doc[last.r]) = APPROVED
    /\ Status(stored) = APPROVED

\* C2 (as stated): revokeDealershipApplication succeeds iff the status is
\* APPROVED, and then the stored status is REJECTED; on every other status
\* it fails with the 403 error and changes nothing.
C2_RevokeSucceedsIffApproved ==
    [][\A r \in Requests :
         /\ (revokeDealershipApplication(r) /\ Status(doc[r]) # APPROVED)
               => /\ last' = Call("revoke", r, NONE, "403")
                  /\ pc'[r] = "idle"
                  /\ doc' = doc
                  /\ stored' = stored
         /\ (revokeDealershipApplication(r) /\ Status(doc[r]) = APPROVED)
               => /\ pc'[r] # "idle"
                  /\ Status(doc'[r]) = REJECTED
                  /\ last' = last
         /\ Completes(r, "revoke")
               => /\ last' = Call("revoke", r, NONE, "ok")
                  /\ Status(stored') = REJECTED]_vars

\* C2 (amended): revokeDealershipApplication passes its guard iff the
\* status is APPROVED; its save then either is accepted, and the stored
\* status is REJECTED, or is rejected by the store, and the call fails
\* with the store's error and the stored record as it was.  On every
\* other status it fails with the 403 error and changes nothing.
C2_RevokeOnlyApproved ==
    [][\A r \in Requests :
         /\ (revokeDealershipApplication(r) /\ Status(doc[r]) # APPROVED)
               => /\ last' = Call("revoke", r, NONE, "403")
                  /\ pc'[r] = "idle"
                  /\ doc' = doc
                  /\ stored' = stored
         /\ (revokeDealershipApplication(r) /\ Status(doc[r]) = APPROVED)
               => /\ pc'[r] # "idle"
                  /\ Status(doc'[r]) = REJECTED
                  /\ last' = last
         /\ Completes(r, "revoke")
               => \/ /\ last' = Call("revoke", r, NONE, "ok")
                     /\ Status(stored') = REJECTED
                  \/ /\ last' = Call("revoke", r, NONE, "SaveError")
                     /\ stored' = stored]_vars

C2_Witness ==
    /\ last = Call("revoke", last.r, NONE, "ok")
    /\ everApproved
    /\ Status(stored) = REJECTED
    /\ Status(doc[last.r]) = REJECTED

\* C3: a dealershipApplicationResponse that succeeds leaves the status
\* APPROVED or REJECTED, and once the stored status has been APPROVED no
\* response or revocation makes it PENDING again.
C3_ResponseDecides ==
    [][\A r \in Requests :
         /\ (Land(r) /\ op[r].name = "respond")
               => Status(doc'[r]) \in {APPROVED, REJECTED}
         /\ (Land(r) /\ op[r].name \in {"respond", "revoke"} /\ everApproved)
               => Status(stored') # PENDING]_vars

\* C4: no dealershipApplicationResponse overwrites a stored APPROVED, also
\* when another request approved after the responder loaded its document.
C4_ApprovedNeverOverwritten ==
    [][\A r \in Requests :
         (Land(r) /\ op[r].name = "respond" /\ Status(stored) = APPROVED)
            => Status(stored') = APPROVED]_vars

\* C5: for either purpose the stored token is present iff its expiry is,
\* and a stored token and expiry come from the same issue call.
C5_TokenWithItsExpiry ==
    /\ (stored.passwordResetToken # Absent) <=> (stored.passwordResetTokenExpires # Absent)
    /\ (stored.userConfirmationToken # Absent)
          <=> (stored.userConfirmationTokenExpires # Absent)
    /\ stored.passwordResetToken # Absent
          => \E i \in IssuedFor("reset") :
                ResetPair(stored) = <<Sha256(i.raw), CastString(i.expires)>>
    /\ stored.userConfirmationToken # Absent
          => \E i \in IssuedFor("confirmation") :
                ConfirmationPair(stored) = <<Sha256(i.raw), CastDate(i.expires)>>

\* C6: the stored password is the hash, applied once, of the plaintext most
\* recently supplied, and no passwordConfirm is stored.
C6_PasswordHashedOnce ==
    created
       => /\ comparePassword(lastPlain, stored.password)
          /\ stored.passwordConfirm = Absent

\* C7: passwordChangedAfterJwt is false on every document while no
\* password change has stamped passwordChangedAt, which then is absent
\* everywhere; and it is true whenever the JWT's issue time is before
\* passwordChangedAt.
C7_ChangedAfterJwt ==
    \A d \in Documents :
       /\ stamps = {} => d.passwordChangedAt = Absent
       /\ \A iat \in JwtIatsAround(now) :
             /\ d.passwordChangedAt = Absent => ~passwordChangedAfterJwt(d, iat)
             /\ (d.passwordChangedAt # Absent
                   /\ iat * MsPerSecond < EpochOf(d.passwordChangedAt))
                   => passwordChangedAfterJwt(d, iat)

C7_Witness ==
    /\ last.op = "changePassword"
    /\ last.outcome = "ok"
    /\ stored.passwordChangedAt # Absent
    /\ EpochOf(stored.passwordChangedAt) % MsPerSecond # 0
    /\ \E r \in Requests : loaded[r] /\ doc[r].passwordChangedAt = Absent

\* C8: a reset token issued at t is stored with the expiry t + 10 minutes,
\* and its check against the stored pair holds at every instant up to that
\* expiry and fails after it.
C8_ResetTokenExpiry ==
    \A i \in IssuedFor("reset") :
       stored.passwordResetToken = Sha256(i.raw)
          => /\ stored.passwordResetTokenExpires
                   = CastString(createTimeStampInEpoch(TokenWindowMin, i.at))
             /\ \A t \in CheckTimes(i.at) :
                   verify(i.raw, stored.passwordResetToken,
                          stored.passwordResetTokenExpires, t)
                      <=> (t <= createTimeStampInEpoch(TokenWindowMin, i.at))

\* C9: a passwordChangedAt stamped by a password change at the instant T
\* is T - 1000 ms, and passwordChangedAfterJwt is false for every JWT
\* issued at or after the second of T.
C9_SameInstantTokenNotStale ==
    \A d \in Documents :
       d.passwordChangedAt # Absent
          => \E T \in stamps :
                /\ d.passwordChangedAt = CastDate(T - SkewMs)
                /\ \A iat \in JwtIatsAround(T) :
                      iat >= T \div MsPerSecond => ~passwordChangedAfterJwt(d, iat)

C9_Witness ==
    /\ last.op = "changePassword"
    /\ last.outcome = "ok"
    /\ now \in stamps
    /\ stored.passwordChangedAt = CastDate(now - SkewMs)
    /\ ~passwordChangedAfterJwt(stored, now \div MsPerSecond)

\* The raw token of one purpose never matches the stored hash of the other.
NoCrossMatch ==
    \A i \in issued :
       /\ i.purpose = "reset" => stored.userConfirmationToken # Sha256(i.raw)
       /\ i.purpose = "confirmation" => stored.passwordResetToken # Sha256(i.raw)

\* C10: issuing a reset token leaves the confirmation pair as
\* it is, issuing a confirmation token leaves the reset pair as it is,
\* neither changes password, passwordChangedAt, role or status, on the
\* document and in storage, and the raw token of one purpose never
\* matches the stored hash of the other.
C10_TokensIndependent ==
    /\ [][\A r \in Requests :
            /\ generateAndSavePasswordResetToken(r)
                  => /\ ConfirmationPair(doc'[r]) = ConfirmationPair(doc[r])
                     /\ Credentials(doc'[r]) = Credentials(doc[r])
            /\ generateAndSaveUserConfirmationToken(r)
                  => /\ ResetPair(doc'[r]) = ResetPair(doc[r])
                     /\ Credentials(doc'[r]) = Credentials(doc[r])
            /\ Completes(r, "issueReset")
                  => /\ ConfirmationPair(stored') = ConfirmationPair(stored)
                     /\ Credentials(stored') = Credentials(stored)
            /\ Completes(r, "issueConfirmation")
                  => /\ ResetPair(stored') = ResetPair(stored)
                     /\ Credentials(stored') = Credentials(stored)]_vars
    /\ []NoCrossMatch

====
